---- MODULE Spec2Model ----
(***************************************************************************)
(* PR Poker (src/app.js): one run of the script.  The run authenticates,   *)
(* fetches the open pull requests of every configured repository, keeps    *)
(* the relevant ones, sorts them, fetches the reviews of each and puts it  *)
(* in one of four buckets, posts a summary to Slack and then one message   *)
(* per Slack user as a thread reply.  Every await of the script is one     *)
(* action; an await that rejects takes the run to the catch block.         *)
(*                                                                         *)
(* Time is counted in whole days.  Handles, team names and Slack ids are   *)
(* strings.  The text of a Slack message is modelled by the PR details it  *)
(* lists, in the order it lists them.                                      *)
(***************************************************************************)
EXTENDS Integers, Sequences, FiniteSets, TLC

\* ---------------------------------------------------------------- bounds
\* Most pull requests one repository returns.
MaxPRs == 1
\* Most pull requests one repository returns where the order of the lists is
\* checked.
MaxOrderPRs == 2
\* Most reviews one pull request returns.
MaxReviews == 2
\* Creation dates range over 0..MaxTime; the run happens at day MaxTime.
MaxTime == 2
\* Submission timestamps of reviews range over 0..MaxReviewTime.
MaxReviewTime == 1

\* --------------------------------------------------------------- domains
Handles == {"alice", "bob"}
TeamNames == {"backend", "frontend"}
SlackUsers == {"U1", "U2"}
\* What a lookup of a missing key of githubToSlackMap yields.
Undefined == "undefined"
ReviewStates == {"APPROVED", "CHANGES_REQUESTED", "COMMENTED"}
\* The day `new Date()` yields during the run.
Now == MaxTime

RECURSIVE SeqsUpTo(_, _)
SeqsUpTo(S, n) ==
  IF n = 0 THEN {<<>>}
  ELSE LET shorter == SeqsUpTo(S, n - 1)
       IN shorter \cup {Append(s, x) : s \in {t \in shorter : Len(t) = n - 1}, x \in S}

\* The sequences over S that list no element twice.
DistinctSeqs(S) ==
  {s \in SeqsUpTo(S, Cardinality(S)) : \A i, j \in DOMAIN s : i # j => s[i] # s[j]}

Range(s) == {s[i] : i \in DOMAIN s}

\* ----------------------------------------------------------------- state
VARIABLES
  env,                  \* process.env: the three settings read as text
  repos,                \* GH_REPOS, split
  teamMembers,          \* GH_TEAM_MEMBERS, split
  teams,                \* GH_TEAMS, split
  githubToSlackMap,     \* GH_TO_SLACK_USER_MAP, parsed
  pc,                   \* where the async function stands
  repoIdx,              \* position of the repository loop
  pullRequests,         \* the PRs the last pulls.list call returned
  matchingPRs,
  oldPRThresholdDate,
  prIdx,                \* position of the categorization loop
  reviews,              \* reviews.data of the last listReviews call
  olderPRs,
  approvedPRs,
  changesRequestedPRs,
  otherPRs,
  summaryResponse,      \* <<>> until the summary post resolved, then <<response>>
  individualMessages,   \* entries in the order their keys were inserted
  msgIdx,               \* position of the loop over Object.entries
  posted                \* the messages chat.postMessage accepted, in order

vars == <<env, repos, teamMembers, teams, githubToSlackMap, pc, repoIdx,
          pullRequests, matchingPRs, oldPRThresholdDate, prIdx, reviews,
          olderPRs, approvedPRs, changesRequestedPRs, otherPRs,
          summaryResponse, individualMessages, msgIdx, posted>>

config == <<env, repos, teamMembers, teams, githubToSlackMap>>
buckets == <<olderPRs, approvedPRs, changesRequestedPRs, otherPRs>>
slack == <<summaryResponse, individualMessages, msgIdx, posted>>

\* --------------------------------------------------------- configuration
\* parseInt on the texts the model sets: <<n>> for a number, <<>> for NaN.
ParseInt(s) ==
  CASE s = "-1" -> <<-1>>
    [] s = "0" -> <<0>>
    [] s = "1" -> <<1>>
    [] s = "2" -> <<2>>
    [] s = "3" -> <<3>>
    [] OTHER -> <<>>

\* parseInt(text) || dflt: NaN and 0 are falsy.
OrDefault(parsed, dflt) ==
  IF parsed = <<>> \/ parsed = <<0>> THEN dflt ELSE parsed[1]

approvalThreshold == OrDefault(ParseInt(env.APPROVAL_THRESHOLD), 2)

oldPRThresholdDays == OrDefault(ParseInt(env.OLD_PR_THRESHOLD_DAYS), 7)

enableSlackPosting == env.ENABLE_SLACK_POSTING # "false"

\* ------------------------------------------------------ relevance filter
\* A pull request as the script holds it: the fields of the API's record the
\* script reads, with the repository it came from and its number there.
PullRequest(repo, number, body) ==
  [repo |-> repo, number |-> number, user |-> body.user, draft |-> body.draft,
   requested_reviewers |-> body.requested_reviewers,
   requested_teams |-> body.requested_teams, created_at |-> body.created_at]

\* What github.paginate resolves to for one repository.
Paginate(repo, bodies) ==
  [i \in 1..Len(bodies) |-> PullRequest(repo, i, bodies[i])]

isOpenedByTeamMember(pr) == pr.user \in teamMembers

\* Mutant of IsMatch: the draft check is lost.
IsMatchDraftsToo(pr) ==
  \/ pr.user \in teamMembers
  \/ \E i \in DOMAIN pr.requested_reviewers : pr.requested_reviewers[i] \in teamMembers
  \/ \E i \in DOMAIN pr.requested_teams : pr.requested_teams[i] \in teams

\* The condition under which the loop body pushes pr.
IsMatch(pr) ==
  /\ ~pr.draft
  /\ \/ isOpenedByTeamMember(pr)
     \/ \E i \in DOMAIN pr.requested_reviewers : pr.requested_reviewers[i] \in teamMembers
     \/ \E i \in DOMAIN pr.requested_teams : pr.requested_teams[i] \in teams

\* Mutant of InsertByCreatedAt: an unstable sort, pr goes before the elements
\* of its own date.
RECURSIVE InsertBeforeEqual(_, _)
InsertBeforeEqual(sorted, pr) ==
  IF sorted = <<>> THEN <<pr>>
  ELSE IF pr.created_at <= sorted[Len(sorted)].created_at
       THEN Append(InsertBeforeEqual(SubSeq(sorted, 1, Len(sorted) - 1), pr),
                   sorted[Len(sorted)])
       ELSE Append(sorted, pr)

\* Array.prototype.sort is stable: pr goes behind every element not newer.
RECURSIVE InsertByCreatedAt(_, _)
InsertByCreatedAt(sorted, pr) ==
  IF sorted = <<>> THEN <<pr>>
  ELSE IF pr.created_at < sorted[Len(sorted)].created_at
       THEN Append(InsertByCreatedAt(SubSeq(sorted, 1, Len(sorted) - 1), pr),
                   sorted[Len(sorted)])
       ELSE Append(sorted, pr)

RECURSIVE SortByCreatedAt(_)
SortByCreatedAt(prs) ==
  IF prs = <<>> THEN <<>>
  ELSE InsertByCreatedAt(SortByCreatedAt(SubSeq(prs, 1, Len(prs) - 1)), prs[Len(prs)])

\* ------------------------------------------------------------ classifier
\* Mutant of ScanReviews: every review overwrites its reviewer's entry, so the
\* review listed last is kept whatever its timestamp.
RECURSIVE ScanReviewsLastListed(_, _, _)
ScanReviewsLastListed(data, i, map) ==
  IF i > Len(data) THEN map
  ELSE ScanReviewsLastListed(data, i + 1,
         [u \in DOMAIN map \cup {data[i].user} |->
            IF u = data[i].user THEN data[i] ELSE map[u]])

\* The Map after the scan of data[i..]: a function from the logins seen.
RECURSIVE ScanReviews(_, _, _)
ScanReviews(data, i, map) ==
  IF i > Len(data) THEN map
  ELSE LET review == data[i]
           login == review.user
       IN IF login \notin DOMAIN map \/ review.submitted_at > map[login].submitted_at
          THEN ScanReviews(data, i + 1,
                 [u \in DOMAIN map \cup {login} |-> IF u = login THEN review ELSE map[u]])
          ELSE ScanReviews(data, i + 1, map)

latestReviewByUser(data) == ScanReviews(data, 1, <<>>)

hasChangesRequested(latest) ==
  \E u \in DOMAIN latest : latest[u].state = "CHANGES_REQUESTED"

approvals(latest) == {u \in DOMAIN latest : latest[u].state = "APPROVED"}

\* Mutant of Categorize: the final push into otherPRs is lost.
CategorizeDroppingOther(pr, data) ==
  LET latest == latestReviewByUser(data)
  IN IF hasChangesRequested(latest) THEN "changesRequested"
     ELSE IF Cardinality(approvals(latest)) >= approvalThreshold THEN "approved"
     ELSE IF pr.created_at < oldPRThresholdDate THEN "older"
     ELSE "none"

\* Mutant of Categorize: the approvals are counted before the changes-requested
\* check.
CategorizeApprovalsFirst(pr, data) ==
  LET latest == latestReviewByUser(data)
  IN IF Cardinality(approvals(latest)) >= approvalThreshold THEN "approved"
     ELSE IF hasChangesRequested(latest) THEN "changesRequested"
     ELSE IF pr.created_at < oldPRThresholdDate THEN "older"
     ELSE "other"

\* Mutant of Categorize: a PR created on the threshold date counts as old.
CategorizeOldAtThreshold(pr, data) ==
  LET latest == latestReviewByUser(data)
  IN IF hasChangesRequested(latest) THEN "changesRequested"
     ELSE IF Cardinality(approvals(latest)) >= approvalThreshold THEN "approved"
     ELSE IF pr.created_at <= oldPRThresholdDate THEN "older"
     ELSE "other"

\* The bucket the loop body pushes pr into, given reviews.data.
Categorize(pr, data) ==
  LET latest == latestReviewByUser(data)
  IN IF hasChangesRequested(latest) THEN "changesRequested"
     ELSE IF Cardinality(approvals(latest)) >= approvalThreshold THEN "approved"
     ELSE IF pr.created_at < oldPRThresholdDate THEN "older"
     ELSE "other"

\* ---------------------------------------------------------------- digests
\* formatPRDetails: the text names the PR, its author and its dates.
formatPRDetails(pr) ==
  [repo |-> pr.repo, number |-> pr.number, user |-> pr.user, created_at |-> pr.created_at]

Details(prs) == [i \in DOMAIN prs |-> formatPRDetails(prs[i])]

HasKey(messages, slackUser) ==
  \E i \in DOMAIN messages : messages[i].slackUser = slackUser

\* Mutant of Push: the push sits in the else of the test that creates the
\* entry, so a new key starts with three empty lists.
PushUnlessNew(messages, slackUser, field, prDetails) ==
  IF HasKey(messages, slackUser)
  THEN [i \in DOMAIN messages |->
          IF messages[i].slackUser = slackUser
          THEN [messages[i] EXCEPT ![field] = Append(@, prDetails)]
          ELSE messages[i]]
  ELSE Append(messages, [slackUser |-> slackUser, assignedPRs |-> <<>>,
                         approvedPRs |-> <<>>, changesRequestedPRs |-> <<>>])

\* individualMessages[slackUser][field].push(prDetails), the entry created first
\* when the key is new.
Push(messages, slackUser, field, prDetails) ==
  LET present == IF HasKey(messages, slackUser) THEN messages
                 ELSE Append(messages, [slackUser |-> slackUser, assignedPRs |-> <<>>,
                                        approvedPRs |-> <<>>, changesRequestedPRs |-> <<>>])
  IN [i \in DOMAIN present |->
        IF present[i].slackUser = slackUser
        THEN [present[i] EXCEPT ![field] = Append(@, prDetails)]
        ELSE present[i]]

\* A value of githubToSlackMap that passes `if (slackUser)`.
Truthy(slackUser) == slackUser # Undefined /\ slackUser # ""

\* Mutant of assignedTeamMembers: the filter on teamMembers is lost.
allPendingReviewers(pr) == pr.requested_reviewers

assignedTeamMembers(pr) ==
  SelectSeq(pr.requested_reviewers, LAMBDA reviewer : reviewer \in teamMembers)

RECURSIVE AddAssigned(_, _, _, _)
AddAssigned(messages, assignees, i, prDetails) ==
  IF i > Len(assignees) THEN messages
  ELSE LET slackUser == githubToSlackMap[assignees[i]]
       IN AddAssigned(IF Truthy(slackUser)
                      THEN Push(messages, slackUser, "assignedPRs", prDetails)
                      ELSE messages,
                      assignees, i + 1, prDetails)

\* Mutant of AddPR: the changes-requested block tests approvedPRs, as the block
\* above it does.
AddPRTestingApprovedTwice(messages, pr) ==
  LET prDetails == formatPRDetails(pr)
      author == githubToSlackMap[pr.user]
      a == AddAssigned(messages, assignedTeamMembers(pr), 1, prDetails)
      b == IF pr \in Range(approvedPRs) /\ Truthy(author)
           THEN Push(a, author, "approvedPRs", prDetails) ELSE a
      c == IF pr \in Range(approvedPRs) /\ Truthy(author)
           THEN Push(b, author, "changesRequestedPRs", prDetails) ELSE b
  IN c

\* One pass of the loop that fills individualMessages.
AddPR(messages, pr) ==
  LET prDetails == formatPRDetails(pr)
      author == githubToSlackMap[pr.user]
      a == AddAssigned(messages, assignedTeamMembers(pr), 1, prDetails)
      b == IF pr \in Range(approvedPRs) /\ Truthy(author)
           THEN Push(a, author, "approvedPRs", prDetails) ELSE a
      c == IF pr \in Range(changesRequestedPRs) /\ Truthy(author)
           THEN Push(b, author, "changesRequestedPRs", prDetails) ELSE b
  IN c

RECURSIVE BuildIndividualMessages(_, _)
BuildIndividualMessages(messages, i) ==
  IF i > Len(matchingPRs) THEN messages
  ELSE BuildIndividualMessages(AddPR(messages, matchingPRs[i]), i + 1)

\* The summary text: the total and the four sections (an empty one is left out
\* of the text, which an empty list stands for).
summaryMessage ==
  [total |-> Len(matchingPRs),
   changesRequested |-> Details(changesRequestedPRs),
   approved |-> Details(approvedPRs),
   older |-> Details(olderPRs),
   other |-> Details(otherPRs)]

individualMessage(messages) ==
  [slackUser |-> messages.slackUser,
   approved |-> messages.approvedPRs,
   changesRequested |-> messages.changesRequestedPRs,
   assigned |-> messages.assignedPRs]

\* ---------------------------------------------------------------- actions
\* Where the run goes once the categorization loop is over: the summary text is
\* built without an await, and nothing follows it when posting is off.
AfterCategorization == IF enableSlackPosting THEN "postSummary" ELSE "done"

\* await auth({type: 'installation'}) resolves; the clients are created.
Authenticate ==
  /\ pc = "auth"
  /\ pc' = "fetchPRs"
  /\ UNCHANGED <<config, repoIdx, pullRequests, matchingPRs, oldPRThresholdDate,
                 prIdx, reviews, buckets, slack>>

\* One pass of the repository loop: github.paginate resolves to one of
\* `responses`, the matching PRs are pushed; behind the last repository the list
\* is sorted and the threshold date is computed.
FetchPullRequests(responses) ==
  /\ pc = "fetchPRs"
  /\ \E bodies \in responses :
       LET fetched == Paginate(repos[repoIdx], bodies)
           collected == matchingPRs \o SelectSeq(fetched, IsMatch)
       IN /\ pullRequests' = fetched
          /\ IF repoIdx < Len(repos)
             THEN /\ repoIdx' = repoIdx + 1
                  /\ matchingPRs' = collected
                  /\ UNCHANGED <<pc, oldPRThresholdDate>>
             ELSE /\ matchingPRs' = SortByCreatedAt(collected)
                  /\ oldPRThresholdDate' = Now - oldPRThresholdDays
                  /\ pc' = IF collected = <<>> THEN AfterCategorization ELSE "listReviews"
                  /\ UNCHANGED repoIdx
  /\ UNCHANGED <<config, prIdx, reviews, buckets, slack>>

\* One pass of the categorization loop: listReviews resolves with one of
\* `responses` as its data and the PR is pushed into one bucket.
CategorizePR(responses) ==
  /\ pc = "listReviews"
  /\ \E data \in responses :
       LET pr == matchingPRs[prIdx]
           category == Categorize(pr, data)
       IN /\ reviews' = data
          /\ changesRequestedPRs' = IF category = "changesRequested"
                                    THEN Append(changesRequestedPRs, pr)
                                    ELSE changesRequestedPRs
          /\ approvedPRs' = IF category = "approved" THEN Append(approvedPRs, pr)
                            ELSE approvedPRs
          /\ olderPRs' = IF category = "older" THEN Append(olderPRs, pr) ELSE olderPRs
          /\ otherPRs' = IF category = "other" THEN Append(otherPRs, pr) ELSE otherPRs
  /\ prIdx' = prIdx + 1
  /\ pc' = IF prIdx < Len(matchingPRs) THEN "listReviews" ELSE AfterCategorization
  /\ UNCHANGED <<config, repoIdx, pullRequests, matchingPRs, oldPRThresholdDate, slack>>

\* The summary post resolves; individualMessages is filled without an await.
PostSummary ==
  /\ pc = "postSummary"
  /\ LET ts == Len(posted) + 1
         messages == BuildIndividualMessages(<<>>, 1)
     IN /\ posted' = Append(posted, [ts |-> ts, thread_ts |-> 0, text |-> summaryMessage])
        /\ summaryResponse' = <<[ts |-> ts]>>
        /\ individualMessages' = messages
        /\ pc' = IF messages = <<>> THEN "done" ELSE "postIndividual"
  /\ msgIdx' = 1
  /\ UNCHANGED <<config, repoIdx, pullRequests, matchingPRs, oldPRThresholdDate,
                 prIdx, reviews, buckets>>

\* Mutant of PostIndividual: thread_ts is left out of the post.
PostIndividualUnthreaded ==
  /\ pc = "postIndividual"
  /\ enableSlackPosting
  /\ posted' = Append(posted, [ts |-> Len(posted) + 1,
                               thread_ts |-> 0,
                               text |-> individualMessage(individualMessages[msgIdx])])
  /\ msgIdx' = msgIdx + 1
  /\ pc' = IF msgIdx < Len(individualMessages) THEN "postIndividual" ELSE "done"
  /\ UNCHANGED <<config, repoIdx, pullRequests, matchingPRs, oldPRThresholdDate,
                 prIdx, reviews, buckets, summaryResponse, individualMessages>>

\* One pass of the loop over Object.entries(individualMessages).
PostIndividual ==
  /\ pc = "postIndividual"
  /\ enableSlackPosting
  /\ posted' = Append(posted, [ts |-> Len(posted) + 1,
                               thread_ts |-> summaryResponse[1].ts,
                               text |-> individualMessage(individualMessages[msgIdx])])
  /\ msgIdx' = msgIdx + 1
  /\ pc' = IF msgIdx < Len(individualMessages) THEN "postIndividual" ELSE "done"
  /\ UNCHANGED <<config, repoIdx, pullRequests, matchingPRs, oldPRThresholdDate,
                 prIdx, reviews, buckets, summaryResponse, individualMessages>>

\* An await rejects: the catch block logs the error and the run is over.
Catch(at) ==
  /\ pc = at
  /\ pc' = "error"
  /\ UNCHANGED <<config, repoIdx, pullRequests, matchingPRs, oldPRThresholdDate,
                 prIdx, reviews, buckets, slack>>

\* Mutant of ListReviewsFails: the rejection is caught inside the loop and the
\* run goes on to the summary with the PRs categorized so far.
ListReviewsFailsSwallowed ==
  /\ pc = "listReviews"
  /\ pc' = AfterCategorization
  /\ UNCHANGED <<config, repoIdx, pullRequests, matchingPRs, oldPRThresholdDate,
                 prIdx, reviews, buckets, slack>>

AuthenticateFails == Catch("auth")
FetchPullRequestsFails == Catch("fetchPRs")
ListReviewsFails == Catch("listReviews")
PostSummaryFails == Catch("postSummary")
PostIndividualFails == Catch("postIndividual")

\* ------------------------------------------------------------------ inputs
Configs(envs, repoLists, memberSets, teamSets, maps) ==
  [env : envs, repos : repoLists, teamMembers : memberSets, teams : teamSets,
   githubToSlackMap : maps]

Envs(approvalTexts, dayTexts, postingTexts) ==
  [APPROVAL_THRESHOLD : approvalTexts, OLD_PR_THRESHOLD_DAYS : dayTexts,
   ENABLE_SLACK_POSTING : postingTexts]

PRBodies(users, drafts, reviewerLists, teamLists, dates) ==
  [user : users, draft : drafts, requested_reviewers : reviewerLists,
   requested_teams : teamLists, created_at : dates]

Reviews(users, states, times) ==
  [user : users, state : states, submitted_at : times]

\* Every handle has a Slack id of its own.
EveryoneMapped == [h \in Handles |-> IF h = "alice" THEN "U1" ELSE "U2"]

\* The whole run: two repositories, a team of everyone, PRs of alice with bob
\* asked to review, at most one review each, three approval thresholds.
MainConfigs ==
  Configs(Envs({"", "-1", "1"}, {"1"}, {"true", "false"}), {<<"r1", "r2">>}, {Handles}, {{}},
          {EveryoneMapped})
MainPRs ==
  SeqsUpTo(PRBodies({"alice"}, BOOLEAN, {<<"bob">>}, {<<>>}, {0, Now}), MaxPRs)
MainReviews ==
  SeqsUpTo(Reviews({"bob"}, ReviewStates, {0}), 1)

\* The relevance filter: every team, every PR of one repository.
FilterConfigs ==
  Configs(Envs({""}, {""}, {"true"}), {<<"r1">>}, SUBSET Handles, SUBSET TeamNames,
          {EveryoneMapped})
FilterPRs ==
  SeqsUpTo(PRBodies(Handles, BOOLEAN, DistinctSeqs(Handles), DistinctSeqs(TeamNames), {0}),
           MaxPRs)
FilterReviews == {<<>>}

\* The classifier: every setting of the two thresholds, one PR of a tracked
\* author, every list of reviews.
ClassifyConfigs ==
  Configs(Envs({"", "-1", "0", "1"}, {"", "1", "2"}, {"true"}), {<<"r1">>}, {{"alice"}},
          {{}}, {EveryoneMapped})
ClassifyPRs ==
  SeqsUpTo(PRBodies({"alice"}, {FALSE}, {<<>>}, {<<>>}, 0..MaxTime), 1)
ClassifyReviews ==
  SeqsUpTo(Reviews(Handles, ReviewStates, 0..MaxReviewTime), MaxReviews)

\* The digests: every team and every map, PRs of one repository with every
\* list of requested reviewers.
DigestConfigs ==
  Configs(Envs({"1"}, {"1"}, {"true"}), {<<"r1">>}, SUBSET Handles, {{"backend"}},
          [Handles -> SlackUsers \cup {Undefined}])
DigestPRs ==
  SeqsUpTo(PRBodies(Handles, {FALSE}, DistinctSeqs(Handles), {<<>>, <<"backend">>}, {0, Now}),
           MaxPRs)
DigestReviews == MainReviews

\* The order of the lists: two repositories with several PRs each, of two
\* dates; alice's PRs with bob asked to review; the two handles mapped to two
\* Slack users or to one.
OrderConfigs ==
  Configs(Envs({"1"}, {"1"}, {"true"}), {<<"r1", "r2">>}, {Handles}, {{}},
          {EveryoneMapped, [h \in Handles |-> "U1"]})
OrderPRs ==
  SeqsUpTo(PRBodies({"alice"}, {FALSE}, {<<"bob">>}, {<<>>}, {0, Now}), MaxOrderPRs)
OrderReviews ==
  SeqsUpTo(Reviews({"bob"}, {"APPROVED", "CHANGES_REQUESTED"}, {0}), 1)

\* ---------------------------------------------------------- specifications
InitWith(configs) ==
  /\ \E c \in configs :
       /\ env = c.env
       /\ repos = c.repos
       /\ teamMembers = c.teamMembers
       /\ teams = c.teams
       /\ githubToSlackMap = c.githubToSlackMap
  /\ pc = "auth"
  /\ repoIdx = 1
  /\ pullRequests = <<>>
  /\ matchingPRs = <<>>
  /\ oldPRThresholdDate = Now
  /\ prIdx = 1
  /\ reviews = <<>>
  /\ olderPRs = <<>>
  /\ approvedPRs = <<>>
  /\ changesRequestedPRs = <<>>
  /\ otherPRs = <<>>
  /\ summaryResponse = <<>>
  /\ individualMessages = <<>>
  /\ msgIdx = 1
  /\ posted = <<>>

Run(prResponses, reviewResponses) ==
  \/ Authenticate
  \/ AuthenticateFails
  \/ FetchPullRequests(prResponses)
  \/ FetchPullRequestsFails
  \/ CategorizePR(reviewResponses)
  \/ ListReviewsFails
  \/ PostSummary
  \/ PostSummaryFails
  \/ PostIndividual
  \/ PostIndividualFails

Init == InitWith(MainConfigs)
Next == Run(MainPRs, MainReviews)
Spec == Init /\ [][Next]_vars

InitFilter == InitWith(FilterConfigs)
NextFilter == Run(FilterPRs, FilterReviews)
SpecFilter == InitFilter /\ [][NextFilter]_vars

InitClassify == InitWith(ClassifyConfigs)
NextClassify == Run(ClassifyPRs, ClassifyReviews)
SpecClassify == InitClassify /\ [][NextClassify]_vars

InitDigest == InitWith(DigestConfigs)
NextDigest == Run(DigestPRs, DigestReviews)
SpecDigest == InitDigest /\ [][NextDigest]_vars

InitOrder == InitWith(OrderConfigs)
NextOrder == Run(OrderPRs, OrderReviews)
SpecOrder == InitOrder /\ [][NextOrder]_vars

\* ------------------------------------------------------------ properties
\* The categorization loop has run at least once: reviews holds the reviews
\* of LastPR, the PR it categorized last.
Categorized == prIdx > 1
LastPR == matchingPRs[prIdx - 1]
InBucket(pr, bucket) == pr \in Range(bucket)
Count(s, x) == Cardinality({i \in DOMAIN s : s[i] = x})

\* C1: a fetched PR is in matchingPRs if and only if it is not a draft and its
\* author is a tracked member, or one of its requested reviewers is, or one of
\* its requested teams is a tracked team; no draft is ever in matchingPRs.
C1_RelevantIffNonDraftAndTracked ==
  /\ \A i \in DOMAIN pullRequests :
       LET pr == pullRequests[i]
       IN pr \in Range(matchingPRs) <=>
            /\ pr.draft = FALSE
            /\ \/ pr.user \in teamMembers
               \/ Range(pr.requested_reviewers) \cap teamMembers # {}
               \/ Range(pr.requested_teams) \cap teams # {}
  /\ \A i \in DOMAIN matchingPRs : matchingPRs[i].draft = FALSE

\* A draft of a tracked author was fetched and left out.
C1_Witness ==
  \E i \in DOMAIN pullRequests :
    /\ pullRequests[i].draft
    /\ pullRequests[i].user \in teamMembers
    /\ pullRequests[i] \notin Range(matchingPRs)

\* A PR none of whose people is tracked was kept for its team alone.
C1_WitnessTeamOnly ==
  \E i \in DOMAIN pullRequests :
    /\ pullRequests[i] \in Range(matchingPRs)
    /\ pullRequests[i].user \notin teamMembers
    /\ Range(pullRequests[i].requested_reviewers) \cap teamMembers = {}

\* C2: the four buckets are pairwise disjoint and hold, between them, exactly
\* the PRs categorized so far, each once; when the loop is over that is the
\* whole of matchingPRs, and the total of a posted summary is the sum of its
\* four lists.
C2_BucketsPartitionRelevant ==
  LET categorized == SubSeq(matchingPRs, 1, prIdx - 1)
      all == <<changesRequestedPRs, approvedPRs, olderPRs, otherPRs>>
  IN /\ \A a, b \in 1..4 : a # b => Range(all[a]) \cap Range(all[b]) = {}
     /\ UNION {Range(all[a]) : a \in 1..4} = Range(categorized)
     /\ Len(all[1]) + Len(all[2]) + Len(all[3]) + Len(all[4]) = Len(categorized)
     /\ pc \in {"postSummary", "postIndividual", "done"} => Len(categorized) = Len(matchingPRs)
     /\ \A m \in DOMAIN posted :
          posted[m].thread_ts = 0 =>
            LET t == posted[m].text
            IN t.total = Len(t.changesRequested) + Len(t.approved) + Len(t.older) + Len(t.other)

\* The run is over with two relevant PRs in two buckets.
C2_Witness ==
  /\ pc = "done"
  /\ Len(matchingPRs) = 2
  /\ Len(changesRequestedPRs) = 1
  /\ Len(otherPRs) = 1
  /\ posted # <<>>

\* The reviewers of a list of reviews, a reviewer's greatest submission
\* timestamp, and the places of the reviews that bear it.
Reviewers(data) == {data[i].user : i \in DOMAIN data}
Greatest(data, u) ==
  CHOOSE t \in {data[i].submitted_at : i \in {j \in DOMAIN data : data[j].user = u}} :
    \A i \in DOMAIN data : data[i].user = u => data[i].submitted_at <= t
AtGreatest(data, u) ==
  {i \in DOMAIN data : data[i].user = u /\ data[i].submitted_at = Greatest(data, u)}
Reordered(data) ==
  {[i \in DOMAIN data |-> data[p[i]]] :
     p \in {q \in [DOMAIN data -> DOMAIN data] : \A i, j \in DOMAIN data : i # j => q[i] # q[j]}}

\* The bucket of a category.
BucketOf(category) ==
  CASE category = "changesRequested" -> changesRequestedPRs
    [] category = "approved" -> approvedPRs
    [] category = "older" -> olderPRs
    [] OTHER -> otherPRs

\* C3: a PR whose latest reviews include a changes-requested one is in the
\* changes-requested bucket and in no other, however many of the other latest
\* reviews approve, whatever the threshold and the PR's age.
C3_ChangesRequestedFirst ==
  Categorized /\ hasChangesRequested(latestReviewByUser(reviews)) =>
    /\ InBucket(LastPR, changesRequestedPRs)
    /\ ~InBucket(LastPR, approvedPRs)
    /\ ~InBucket(LastPR, olderPRs)
    /\ ~InBucket(LastPR, otherPRs)

\* Changes are requested of a PR that has approvals enough and is old enough.
C3_Witness ==
  /\ Categorized
  /\ InBucket(LastPR, changesRequestedPRs)
  /\ Cardinality(approvals(latestReviewByUser(reviews))) >= approvalThreshold
  /\ approvals(latestReviewByUser(reviews)) # {}
  /\ Now - LastPR.created_at > oldPRThresholdDays

\* C4: the review kept for a reviewer bears that reviewer's greatest timestamp;
\* so a reviewer whose latest review alone requests changes puts the PR in the
\* changes-requested bucket, an approved PR has its approvals among the reviews
\* bearing their reviewers' greatest timestamps, and when no reviewer has two
\* reviews at the greatest timestamp the bucket is the same for every order of
\* the list.
C4_LatestReviewPerReviewer ==
  Categorized =>
    LET latest == latestReviewByUser(reviews)
    IN /\ DOMAIN latest = Reviewers(reviews)
       /\ \A u \in Reviewers(reviews) : latest[u].submitted_at = Greatest(reviews, u)
       /\ (\E u \in Reviewers(reviews) :
             \A i \in AtGreatest(reviews, u) : reviews[i].state = "CHANGES_REQUESTED")
          => InBucket(LastPR, changesRequestedPRs)
       /\ InBucket(LastPR, approvedPRs) =>
            Cardinality({u \in Reviewers(reviews) :
                           \E i \in AtGreatest(reviews, u) : reviews[i].state = "APPROVED"})
              >= approvalThreshold
       /\ (\A u \in Reviewers(reviews) : Cardinality(AtGreatest(reviews, u)) = 1)
          => \A other \in Reordered(reviews) :
               InBucket(LastPR, BucketOf(Categorize(LastPR, other)))

\* A reviewer approved and later requested changes; the later review is listed
\* first, and the PR is in the changes-requested bucket.
C4_Witness ==
  /\ Categorized
  /\ Len(reviews) = 2
  /\ reviews[1].user = reviews[2].user
  /\ reviews[1].state = "CHANGES_REQUESTED"
  /\ reviews[2].state = "APPROVED"
  /\ reviews[2].submitted_at < reviews[1].submitted_at
  /\ InBucket(LastPR, changesRequestedPRs)

\* The reduction that keeps, of a reviewer's reviews with the greatest
\* timestamp, the one listed last.
LastListedWins(data) ==
  [u \in Reviewers(data) |->
     data[CHOOSE i \in AtGreatest(data, u) : \A j \in AtGreatest(data, u) : j <= i]]

\* C5: of two reviews of one reviewer with equal timestamps the one listed last
\* is kept, and the PR's bucket is the one that review decides.
C5_LastOfTiedReviewsKept ==
  Categorized =>
    /\ latestReviewByUser(reviews) = LastListedWins(reviews)
    /\ hasChangesRequested(LastListedWins(reviews)) => InBucket(LastPR, changesRequestedPRs)

\* C6: with APPROVAL_THRESHOLD=0 the threshold in use is 0, and every PR
\* without a changes-requested latest review is in the approved bucket.
C6_ZeroThresholdApprovesAll ==
  env.APPROVAL_THRESHOLD = "0" /\ Categorized
                               /\ ~hasChangesRequested(latestReviewByUser(reviews)) =>
    /\ approvalThreshold = 0
    /\ InBucket(LastPR, approvedPRs)
    /\ ~InBucket(LastPR, olderPRs)
    /\ ~InBucket(LastPR, otherPRs)

\* C7 as stated: a PR with neither changes requested nor approvals enough is in
\* the old bucket if and only if its age is at least the age threshold, and in
\* the other bucket otherwise.
C7_OldIffAgeAtLeastThreshold ==
  Categorized /\ ~hasChangesRequested(latestReviewByUser(reviews))
              /\ Cardinality(approvals(latestReviewByUser(reviews))) < approvalThreshold =>
    /\ InBucket(LastPR, olderPRs) <=> Now - LastPR.created_at >= oldPRThresholdDays
    /\ InBucket(LastPR, otherPRs) <=> ~(Now - LastPR.created_at >= oldPRThresholdDays)

\* C7 amended: such a PR is in the old bucket if and only if its age is greater
\* than the age threshold, and in the other bucket otherwise; a PR whose age
\* equals the threshold is in the other bucket.
C7_OldIffAgeOverThreshold ==
  Categorized /\ ~hasChangesRequested(latestReviewByUser(reviews))
              /\ Cardinality(approvals(latestReviewByUser(reviews))) < approvalThreshold =>
    /\ InBucket(LastPR, olderPRs) <=> Now - LastPR.created_at > oldPRThresholdDays
    /\ InBucket(LastPR, otherPRs) <=> ~(Now - LastPR.created_at > oldPRThresholdDays)
    /\ ~InBucket(LastPR, changesRequestedPRs)
    /\ ~InBucket(LastPR, approvedPRs)

\* A PR exactly as old as the threshold is in the other bucket.
C7_Witness ==
  /\ Categorized
  /\ Now - LastPR.created_at = oldPRThresholdDays
  /\ InBucket(LastPR, otherPRs)

\* C8: a PR without reviews is in the old or the other bucket, never in the
\* approved or the changes-requested one, whatever APPROVAL_THRESHOLD is.
C8_NoReviewsNeverApproved ==
  Categorized /\ reviews = <<>> =>
    /\ InBucket(LastPR, olderPRs) \/ InBucket(LastPR, otherPRs)
    /\ ~InBucket(LastPR, approvedPRs)
    /\ ~InBucket(LastPR, changesRequestedPRs)

\* The digests are built: the summary post resolved.
Built == summaryResponse # <<>>

\* The sequence an identity has under a field; empty when it has no entry.
SequenceOf(slackUser, field) ==
  IF HasKey(individualMessages, slackUser)
  THEN (CHOOSE m \in Range(individualMessages) : m.slackUser = slackUser)[field]
  ELSE <<>>

\* The text that stands for pr in a message.
Text(pr) == [repo |-> pr.repo, number |-> pr.number, user |-> pr.user,
             created_at |-> pr.created_at]

\* C9 as stated: once the digests are built, a relevant PR is in an identity's
\* direct-review-request sequence once for every requested reviewer whose handle
\* resolves to that identity, tracked or not, whatever the PR's category.
C9_EveryResolvedReviewerAssigned ==
  Built =>
    \A p \in DOMAIN matchingPRs, u \in SlackUsers :
      LET pr == matchingPRs[p]
      IN Count(SequenceOf(u, "assignedPRs"), Text(pr)) =
           Cardinality({i \in DOMAIN pr.requested_reviewers :
                          githubToSlackMap[pr.requested_reviewers[i]] = u})

\* C9 amended: once the digests are built, a relevant PR is in an identity's
\* direct-review-request sequence once for every requested reviewer who is a
\* tracked member and whose handle resolves to that identity, whatever the PR's
\* category; the sequence holds nothing else.
C9_TrackedResolvedReviewerAssigned ==
  Built =>
    /\ \A p \in DOMAIN matchingPRs, u \in SlackUsers :
         LET pr == matchingPRs[p]
         IN Count(SequenceOf(u, "assignedPRs"), Text(pr)) =
              Cardinality({i \in DOMAIN pr.requested_reviewers :
                             /\ pr.requested_reviewers[i] \in teamMembers
                             /\ githubToSlackMap[pr.requested_reviewers[i]] = u})
    /\ \A u \in SlackUsers :
         Range(SequenceOf(u, "assignedPRs")) \subseteq {Text(matchingPRs[p]) : p \in DOMAIN matchingPRs}

\* A PR that is not approved asks two mapped reviewers, one tracked and one
\* not: it is in the sequence of the first and not in that of the second.
C9_Witness ==
  /\ Built
  /\ \E p \in DOMAIN matchingPRs :
       LET pr == matchingPRs[p]
       IN /\ ~InBucket(pr, approvedPRs)
          /\ \E i, j \in DOMAIN pr.requested_reviewers :
               /\ pr.requested_reviewers[i] \in teamMembers
               /\ pr.requested_reviewers[j] \notin teamMembers
               /\ githubToSlackMap[pr.requested_reviewers[i]] \in SlackUsers
               /\ githubToSlackMap[pr.requested_reviewers[j]] \in SlackUsers
               /\ githubToSlackMap[pr.requested_reviewers[i]] # githubToSlackMap[pr.requested_reviewers[j]]
               /\ Count(SequenceOf(githubToSlackMap[pr.requested_reviewers[i]], "assignedPRs"), Text(pr)) = 1
               /\ Count(SequenceOf(githubToSlackMap[pr.requested_reviewers[j]], "assignedPRs"), Text(pr)) = 0

\* C10: once the digests are built, a relevant PR is in an identity's
\* approved-authored sequence (once) if and only if it is in the approved bucket
\* and its author's handle resolves to that identity, and in an identity's
\* changes-requested-authored sequence (once) if and only if it is in the
\* changes-requested bucket and its author's handle resolves to that identity;
\* a PR of the old or the other bucket is in neither, no PR is in both, and a
\* handle without resolution makes no entry.
C10_AuthorSequences ==
  Built =>
    /\ \A p \in DOMAIN matchingPRs, u \in SlackUsers :
         LET pr == matchingPRs[p]
         IN /\ Count(SequenceOf(u, "approvedPRs"), Text(pr)) =
                 IF InBucket(pr, approvedPRs) /\ githubToSlackMap[pr.user] = u THEN 1 ELSE 0
            /\ Count(SequenceOf(u, "changesRequestedPRs"), Text(pr)) =
                 IF InBucket(pr, changesRequestedPRs) /\ githubToSlackMap[pr.user] = u
                 THEN 1 ELSE 0
            /\ InBucket(pr, olderPRs) \/ InBucket(pr, otherPRs) =>
                 \A v \in SlackUsers :
                   /\ Text(pr) \notin Range(SequenceOf(v, "approvedPRs"))
                   /\ Text(pr) \notin Range(SequenceOf(v, "changesRequestedPRs"))
            /\ \A v \in SlackUsers :
                 ~(/\ Text(pr) \in Range(SequenceOf(u, "approvedPRs"))
                   /\ Text(pr) \in Range(SequenceOf(v, "changesRequestedPRs")))
    /\ \A m \in DOMAIN individualMessages :
         /\ individualMessages[m].slackUser \in SlackUsers
         /\ Range(individualMessages[m].approvedPRs) \cup Range(individualMessages[m].changesRequestedPRs)
              \subseteq {Text(matchingPRs[p]) : p \in DOMAIN matchingPRs}

\* An approved PR of a mapped author is in that author's approved-authored
\* sequence, and an approved PR of an unmapped author is in nobody's.
C10_Witness ==
  /\ Built
  /\ \E p \in DOMAIN matchingPRs :
       LET pr == matchingPRs[p]
       IN /\ InBucket(pr, approvedPRs)
          /\ githubToSlackMap[pr.user] \in SlackUsers
          /\ Count(SequenceOf(githubToSlackMap[pr.user], "approvedPRs"), Text(pr)) = 1

\* individualMessages after the first k passes of the loop that fills it.
RECURSIVE MessagesAfter(_)
MessagesAfter(k) ==
  IF k = 0 THEN <<>> ELSE AddPR(MessagesAfter(k - 1), matchingPRs[k])

\* An entry lists a PR of matchingPRs under one of its three fields.
Contributed(m) ==
  \E p \in DOMAIN matchingPRs, f \in {"assignedPRs", "approvedPRs", "changesRequestedPRs"} :
    Text(matchingPRs[p]) \in Range(m[f])

\* C11: every key of individualMessages has a non-empty sequence, holding a
\* relevant PR: after every pass of the loop that fills it (the passes the
\* summary post is about to start) and ever after; and every message posted to
\* a Slack user lists a PR.
C11_NoEmptyDigest ==
  /\ \A m \in DOMAIN individualMessages : Contributed(individualMessages[m])
  /\ pc = "postSummary" =>
       \A k \in 0..Len(matchingPRs) :
         \A m \in DOMAIN MessagesAfter(k) : Contributed(MessagesAfter(k)[m])
  /\ Built => individualMessages = MessagesAfter(Len(matchingPRs))
  /\ \A k \in DOMAIN posted :
       posted[k].thread_ts # 0 =>
         \/ posted[k].text.assigned # <<>>
         \/ posted[k].text.approved # <<>>
         \/ posted[k].text.changesRequested # <<>>

\* An identity has an entry for a review request alone, and its message is
\* posted.
C11_Witness ==
  /\ pc = "done"
  /\ \E m \in DOMAIN individualMessages :
       /\ individualMessages[m].assignedPRs # <<>>
       /\ individualMessages[m].approvedPRs = <<>>
       /\ individualMessages[m].changesRequestedPRs = <<>>
  /\ Len(posted) > 1

\* matchingPRs is sorted: the repository loop is over and the run has not
\* ended in the catch block.
Sorted == pc \in {"listReviews", "postSummary", "postIndividual", "done"}

\* a was discovered before b: its repository comes first in repos, or they
\* share the repository and a comes first in its list.
DiscoveredBefore(a, b) ==
  LET place(r) == CHOOSE i \in DOMAIN repos : repos[i] = r
  IN \/ place(a.repo) < place(b.repo)
     \/ a.repo = b.repo /\ a.number < b.number

\* The place in matchingPRs of the PR a text stands for.
PlaceOf(text) == CHOOSE p \in DOMAIN matchingPRs : Text(matchingPRs[p]) = text

\* The texts of a list follow the order of matchingPRs.
InOrder(texts) ==
  \A a, b \in DOMAIN texts : a < b => PlaceOf(texts[a]) <= PlaceOf(texts[b])

IsIndividual(message) == "slackUser" \in DOMAIN message.text

\* C13: every message to a Slack user is posted after the summary of the run
\* and as a reply in its thread; when the summary is not posted, because
\* posting is off or the summary post failed, nothing is posted at all.
C13_IndividualAfterSummaryInThread ==
  /\ \A k \in DOMAIN posted :
       IsIndividual(posted[k]) =>
         /\ \E j \in 1..(k - 1) :
              /\ ~IsIndividual(posted[j])
              /\ posted[j].thread_ts = 0
              /\ posted[k].thread_ts = posted[j].ts
         /\ summaryResponse # <<>>
         /\ posted[k].thread_ts = summaryResponse[1].ts
  /\ ~enableSlackPosting => posted = <<>>
  /\ summaryResponse = <<>> => posted = <<>>
  /\ Cardinality({k \in DOMAIN posted : ~IsIndividual(posted[k])}) <= 1

\* The run is over with the summary and a reply in its thread posted.
C13_Witness ==
  /\ pc = "done"
  /\ Len(posted) >= 2
  /\ IsIndividual(posted[2])
  /\ posted[2].thread_ts = posted[1].ts

\* C14: with a negative APPROVAL_THRESHOLD the run classifies no PR and posts
\* no message.
C14_NegativeThresholdFailsFast ==
  ParseInt(env.APPROVAL_THRESHOLD) # <<>> /\ ParseInt(env.APPROVAL_THRESHOLD)[1] < 0 =>
    /\ ~Categorized
    /\ changesRequestedPRs = <<>> /\ approvedPRs = <<>> /\ olderPRs = <<>> /\ otherPRs = <<>>
    /\ posted = <<>>

\* C15: nothing is posted while PR lists or reviews are still to be fetched; a
\* message is posted only when the PRs of every repository and the reviews of
\* every relevant PR have been fetched; a fetch that fails leaves the run in the
\* catch block with nothing posted, and nothing is posted from there.
C15_NothingPostedBeforeAllFetched ==
  [][/\ pc \in {"auth", "fetchPRs", "listReviews"} => posted = <<>> /\ posted' = <<>>
     /\ posted' # posted =>
          /\ pc \in {"postSummary", "postIndividual"}
          /\ repoIdx = Len(repos)
          /\ prIdx = Len(matchingPRs) + 1
     /\ pc = "error" => pc' = "error" /\ posted' = posted]_vars

\* The reviews of the first PR were fetched, the fetch for the second failed,
\* and nothing is posted.
C15_Witness ==
  /\ pc = "error"
  /\ prIdx = 2
  /\ Len(matchingPRs) = 2
  /\ posted = <<>>

====
